---------------------------- MODULE Spec2Model ----------------------------
(***************************************************************************)
(* Model of email-sender.c: a worker that LISTENs on the channel           *)
(* new_ticket, drains the backlog of tickets left in 'received' or         *)
(* 'processing', then handles notifications one at a time with             *)
(* process_ticket.                                                         *)
(*                                                                         *)
(* Every SQL statement is one atomic step of the database, every call of   *)
(* send_email is one step, and each may fail.  Spec runs the program as it *)
(* is deployed: one process.  SpecRace runs two copies of the program      *)
(* against the same tickets table, which is the only way two executions of *)
(* process_ticket can overlap.                                             *)
(***************************************************************************)
EXTENDS Integers, Sequences, FiniteSets, TLC

(***************************** bounds **************************************)
MaxNotifs == 5         \* inserts + notifications the producer emits (Spec)
MaxRaceNotifs == 1     \* the same, when two copies of the program run
MaxQueue == 2          \* notifications buffered on one connection
MaxLiveNotifs == 3     \* inserts + notifications the producer emits (SpecLive)

(************************ program constants ********************************)
MAX_AUTH_FAILURES == 5

NULL == 0              \* SQL NULL in sent_at
Launch == 1            \* the database clock when the program starts

Ids == {1, 2}          \* the ticket a property is about, and another one
Workers == {1, 2}      \* process 2 runs only under SpecRace

(************************ is_valid_email ***********************************)
\* Strings are sequences of one-character strings.
Alpha == {"a", "b", "c", "e", "i", "l", "m", "n", "o", "t"}
Digit == {"1"}
LocalChars == Alpha \cup Digit \cup {".", "_", "%", "+", "-"}
DomainChars == Alpha \cup Digit \cup {".", "-"}

a_at_b_com == <<"a", "@", "b", ".", "c", "o", "m">>
not_an_email == <<"n", "o", "t", "-", "a", "n", "-", "e", "m", "a", "i", "l">>
a_at_b_c == <<"a", "@", "b", ".", "c">>
Emails == {a_at_b_com, not_an_email, a_at_b_c}

AllIn(s, lo, hi, cls) == \A k \in lo..hi : s[k] \in cls

\* ^[a-zA-Z0-9._%+-]+@[a-zA-Z0-9.-]+\.[a-zA-Z]{2,}$
is_valid_email(email) ==
    \E i \in 1..Len(email), j \in 1..Len(email) :
        /\ email[i] = "@"
        /\ email[j] = "."
        /\ i > 1 /\ AllIn(email, 1, i - 1, LocalChars)
        /\ j > i + 1 /\ AllIn(email, i + 1, j - 1, DomainChars)
        /\ Len(email) - j >= 2 /\ AllIn(email, j + 1, Len(email), Alpha)

(***************************** state ***************************************)
VARIABLES
    tickets,        \* the tickets table: id -> row, NoRow when there is none
    now,            \* the database clock; NOW() advances it
    queue,          \* per connection: notifications not yet returned by PQnotifies
    budget,         \* inserts/notifications the producer may still emit
    pc,             \* per process: where it is in main / process_ticket
    ticket_id,      \* per process: the argument of the running process_ticket
    caller,         \* per process: the loop that called process_ticket
    backlog,        \* per process: rows of the backlog query not yet processed
    auth_failures,  \* per process: the static counter of process_ticket
    \* ---- history variables (read by the properties only) ----
    log,            \* per process: what the running process_ticket call did
    entry,          \* per process: the ticket row and the counter at call entry
    consec,         \* per process: failed sends since the last success / cool-down
    okSends,        \* per ticket: sends that returned 1 while not yet completed
    scan            \* per process: the backlog query's result (until PQclear)
                    \* and the rows served

vars == <<tickets, now, queue, budget, pc, ticket_id, caller, backlog,
          auth_failures, log, entry, consec, okSends, scan>>

NoRow == [status |-> "absent", email |-> <<>>, sent_at |-> NULL]

\* Rows a previous run of the program (or the producer) can have left.
PriorRows ==
    {NoRow}
    \cup [status : {"received"}, email : Emails, sent_at : {NULL}]
    \cup [status : {"processing"}, email : Emails, sent_at : {NULL}]
    \cup {r \in [status : {"processing"}, email : Emails, sent_at : {Launch}] :
             ~is_valid_email(r.email)}
    \cup {r \in [status : {"completed"}, email : Emails, sent_at : {Launch}] :
             is_valid_email(r.email)}

NoEntry == [row |-> NoRow, fails |-> 0]

\* The backlog query has not returned rows (yet).
NoScan == [ran |-> FALSE, seen |-> <<>>, rows |-> <<>>, served |-> <<>>]

InitCommon ==
    /\ tickets \in [Ids -> PriorRows]
    /\ now = Launch
    /\ queue = [w \in Workers |-> <<>>]
    /\ ticket_id = [w \in Workers |-> 0]
    /\ caller = [w \in Workers |-> "none"]
    /\ backlog = [w \in Workers |-> <<>>]
    /\ auth_failures = [w \in Workers |-> 0]
    /\ log = [w \in Workers |-> <<>>]
    /\ entry = [w \in Workers |-> NoEntry]
    /\ consec = [w \in Workers |-> 0]
    /\ okSends = [id \in Ids |-> 0]
    /\ scan = [w \in Workers |-> NoScan]

Init ==
    /\ InitCommon
    /\ budget = MaxNotifs
    /\ pc = [w \in Workers |-> IF w = 1 THEN "connect" ELSE "off"]

\* Two copies of the program, both already in the steady-state loop.  The
\* tickets of interest are new or not yet inserted; each process's counter is
\* what the tickets it handled before left in it: none, or five failed sends
\* in a row.
InitRace ==
    /\ tickets \in [Ids -> {r \in PriorRows : r.status \in {"absent", "received"}}]
    /\ now = Launch
    /\ queue = [w \in Workers |-> <<>>]
    /\ ticket_id = [w \in Workers |-> 0]
    /\ caller = [w \in Workers |-> "steady"]
    /\ backlog = [w \in Workers |-> <<>>]
    /\ auth_failures \in [Workers -> {0, MAX_AUTH_FAILURES}]
    /\ consec = auth_failures
    /\ log = [w \in Workers |-> <<>>]
    /\ entry = [w \in Workers |-> NoEntry]
    /\ okSends = [id \in Ids |-> 0]
    /\ scan = [w \in Workers |-> NoScan]
    /\ budget = MaxRaceNotifs
    /\ pc = [w \in Workers |-> "steady"]

\* A connection receives notifications once LISTEN has run on it.
Listening(w) == pc[w] \notin {"off", "connect", "listen", "exit"}

InCall(w) == pc[w] \in {"cooldown", "claim", "fetch", "reject", "send",
                        "complete", "ret"}

(****************************** main ***************************************)
\* connect_to_db: NULL makes main return 1.
connect_to_db(w) ==
    /\ pc[w] = "connect"
    /\ \E ok \in BOOLEAN : pc' = [pc EXCEPT ![w] = IF ok THEN "listen" ELSE "exit"]
    /\ UNCHANGED <<tickets, now, queue, budget, ticket_id, caller, backlog,
                   auth_failures, log, entry, consec, okSends, scan>>

\* PQexec("LISTEN new_ticket"): a failure makes main return 1.
Listen(w) ==
    /\ pc[w] = "listen"
    /\ \E ok \in BOOLEAN : pc' = [pc EXCEPT ![w] = IF ok THEN "scan" ELSE "exit"]
    /\ UNCHANGED <<tickets, now, queue, budget, ticket_id, caller, backlog,
                   auth_failures, log, entry, consec, okSends, scan>>

\* The orders in which a query without ORDER BY may return the rows S.
Orders(S) == {s \in [1..Cardinality(S) -> S] : \A i, j \in DOMAIN s : s[i] = s[j] => i = j}

\* Mutant: the backlog query selects on no status.
BacklogMatchesAnyStatus(id) == tickets[id] # NoRow

\* ... WHERE status IN ('received', 'processing')
BacklogMatches(id) == tickets[id].status \in {"received", "processing"}

\* SELECT id FROM tickets WHERE status IN ('received', 'processing')
BacklogScan(w) ==
    /\ pc[w] = "scan"
    /\ \/ /\ pc' = [pc EXCEPT ![w] = "steady"]          \* not PGRES_TUPLES_OK
          /\ UNCHANGED <<backlog, scan>>
       \/ /\ \E rows \in Orders({id \in Ids : BacklogMatches(id)}) :
                 /\ backlog' = [backlog EXCEPT ![w] = rows]
                 /\ scan' = [scan EXCEPT ![w] =
                                [ran |-> TRUE,
                                 seen |-> [id \in Ids |-> tickets[id].status],
                                 rows |-> rows,
                                 served |-> <<>>]]
          /\ pc' = [pc EXCEPT ![w] = "backlog"]
    /\ UNCHANGED <<tickets, now, queue, budget, ticket_id, caller,
                   auth_failures, log, entry, consec, okSends>>

\* Mutant: the gate never trips.
GateTripsNever(n) == FALSE

\* Mutant: the gate tests > instead of >=.
GateTripsLate(n) == n > MAX_AUTH_FAILURES

\* if (auth_failures >= MAX_AUTH_FAILURES)
GateTrips(n) == n >= MAX_AUTH_FAILURES

\* The call of process_ticket(conn, id) up to and including the test of the
\* backoff gate.
EnterProcessTicket(w, id, from) ==
    /\ ticket_id' = [ticket_id EXCEPT ![w] = id]
    /\ caller' = [caller EXCEPT ![w] = from]
    /\ pc' = [pc EXCEPT ![w] = IF GateTrips(auth_failures[w])
                                 THEN "cooldown" ELSE "claim"]
    /\ log' = [log EXCEPT ![w] = <<>>]
    /\ entry' = [entry EXCEPT ![w] = [row |-> tickets[id], fails |-> consec[w]]]

\* Mutant: the loop stops one row early (i < rows - 1).
BacklogDoneEarly(rows) == Len(rows) <= 1

\* The loop test i < rows fails: no row is left.
BacklogDone(rows) == rows = <<>>

\* for (i = 0; i < rows; i++) process_ticket(conn, atoi(PQgetvalue(res, i, 0)));
\* after the loop, PQclear(res)
BacklogLoop(w) ==
    /\ pc[w] = "backlog"
    /\ \/ /\ ~BacklogDone(backlog[w])
          /\ EnterProcessTicket(w, Head(backlog[w]), "backlog")
          /\ backlog' = [backlog EXCEPT ![w] = Tail(backlog[w])]
          /\ scan' = [scan EXCEPT ![w].served = Append(@, Head(backlog[w]))]
       \/ /\ BacklogDone(backlog[w])
          /\ pc' = [pc EXCEPT ![w] = "steady"]
          /\ scan' = [scan EXCEPT ![w] = NoScan]
          /\ UNCHANGED <<ticket_id, caller, backlog, log, entry>>
    /\ UNCHANGED <<tickets, now, queue, budget, auth_failures, consec, okSends>>

\* Mutant: the newest buffered notification is returned.
PQnotifiesNewest(q) == q[Len(q)]

\* PQnotifies returns the oldest buffered notification.
PQnotifies(q) == Head(q)

\* PQconsumeInput; while ((notify = PQnotifies(conn)) != NULL) process_ticket(...)
Poll(w) ==
    /\ pc[w] = "steady"
    /\ \/ /\ queue[w] # <<>>
          /\ EnterProcessTicket(w, PQnotifies(queue[w]), "steady")
          /\ queue' = [queue EXCEPT ![w] = Tail(queue[w])]
       \/ /\ queue[w] = <<>>
          /\ pc' = [pc EXCEPT ![w] = "sleep"]
          /\ UNCHANGED <<ticket_id, caller, queue, log, entry>>
    /\ UNCHANGED <<tickets, now, budget, backlog, auth_failures, consec, okSends, scan>>

\* sleep(1)
Sleep(w) ==
    /\ pc[w] = "sleep"
    /\ pc' = [pc EXCEPT ![w] = "steady"]
    /\ UNCHANGED <<tickets, now, queue, budget, ticket_id, caller, backlog,
                   auth_failures, log, entry, consec, okSends, scan>>

(************************** process_ticket *********************************)
Logged(w, ev) == log' = [log EXCEPT ![w] = Append(log[w], ev)]

\* sleep(900); auth_failures = 0;
CoolDown(w) ==
    /\ pc[w] = "cooldown"
    /\ auth_failures' = [auth_failures EXCEPT ![w] = 0]
    /\ consec' = [consec EXCEPT ![w] = 0]
    /\ Logged(w, "wait")
    /\ pc' = [pc EXCEPT ![w] = "claim"]
    /\ UNCHANGED <<tickets, now, queue, budget, ticket_id, caller, backlog,
                   entry, okSends, scan>>

\* Mutant: the claim also takes a ticket that is already in processing.
ClaimMatchesProcessing(id) == tickets[id].status \in {"received", "processing"}

\* Mutant: the claim also takes a completed ticket.
ClaimMatchesCompleted(id) == tickets[id].status \in {"received", "completed"}

\* The rows UPDATE ... WHERE id = %d AND status = 'received' matches.
ClaimMatches(id) == tickets[id].status = "received"

\* UPDATE tickets SET status = 'processing' WHERE id = %d AND status = 'received'
\* Only PQresultStatus is tested: an UPDATE of no row is PGRES_COMMAND_OK too.
Claim(w) ==
    /\ pc[w] = "claim"
    /\ \/ /\ Logged(w, "claimErr")
          /\ pc' = [pc EXCEPT ![w] = "ret"]
          /\ UNCHANGED tickets
       \/ /\ IF ClaimMatches(ticket_id[w])
             THEN /\ tickets' = [tickets EXCEPT ![ticket_id[w]].status = "processing"]
                  /\ Logged(w, "claim1")
             ELSE /\ UNCHANGED tickets
                  /\ Logged(w, "claim0")
          /\ pc' = [pc EXCEPT ![w] = "fetch"]
    /\ UNCHANGED <<now, queue, budget, ticket_id, caller, backlog,
                   auth_failures, entry, consec, okSends, scan>>

\* Mutant: the fetch selects tickets in received.
FetchMatchesReceived(id) == tickets[id].status = "received"

\* Mutant: the fetch selects on the id alone.
FetchMatchesAnyStatus(id) == tickets[id] # NoRow

\* The rows SELECT ... WHERE id = %d AND status = 'processing' returns.
FetchMatches(id) == tickets[id].status = "processing"

\* Mutant: the address is not validated.
AfterFetchUnchecked(email) == "send"

\* if (!is_valid_email(email)) { ... UPDATE ...; return; }  else send_email
AfterFetch(email) == IF is_valid_email(email) THEN "send" ELSE "reject"

\* SELECT email, subject, body ...; then is_valid_email(email)
Fetch(w) ==
    /\ pc[w] = "fetch"
    /\ \/ /\ Logged(w, "fetchErr")
          /\ pc' = [pc EXCEPT ![w] = "ret"]
       \/ /\ ~FetchMatches(ticket_id[w])
          /\ Logged(w, "fetch0")
          /\ pc' = [pc EXCEPT ![w] = "ret"]
       \/ /\ FetchMatches(ticket_id[w])
          /\ Logged(w, "fetch1")
          /\ pc' = [pc EXCEPT ![w] = AfterFetch(tickets[ticket_id[w]].email)]
    /\ UNCHANGED <<tickets, now, queue, budget, ticket_id, caller, backlog,
                   auth_failures, entry, consec, okSends, scan>>

\* Mutant: the invalid-address update puts the ticket back in received.
RejectedRowReverted(row, t) == [row EXCEPT !.status = "received", !.sent_at = t]

\* Mutant: the invalid-address update does not set sent_at.
RejectedRowNoStamp(row, t) == [row EXCEPT !.status = "processing"]

\* UPDATE tickets SET status = 'processing', sent_at = NOW() WHERE id = %d
RejectedRow(row, t) == [row EXCEPT !.status = "processing", !.sent_at = t]

\* The invalid-address branch; the result of the UPDATE is not looked at.
Reject(w) ==
    /\ pc[w] = "reject"
    /\ \/ /\ Logged(w, "rejectErr")
          /\ UNCHANGED <<tickets, now>>
       \/ /\ Logged(w, "rejectOk")
          /\ now' = now + 1
          /\ tickets' = [tickets EXCEPT ![ticket_id[w]] =
                            IF @ = NoRow THEN @ ELSE RejectedRow(@, now + 1)]
    /\ pc' = [pc EXCEPT ![w] = "ret"]
    /\ UNCHANGED <<queue, budget, ticket_id, caller, backlog,
                   auth_failures, entry, consec, okSends, scan>>

\* Mutant: a failed send counts twice.
AfterSendFailureTwice(n) == n + 2

\* The counter after a failed send.
AfterSendFailure(n) == n + 1

\* if (send_email(email, subject, body)) ... else auth_failures++
Send(w) ==
    /\ pc[w] = "send"
    /\ \/ /\ Logged(w, "sendOk")
          /\ pc' = [pc EXCEPT ![w] = "complete"]
          /\ consec' = [consec EXCEPT ![w] = 0]
          /\ okSends' = [okSends EXCEPT ![ticket_id[w]] =
                            IF tickets[ticket_id[w]].status # "completed" /\ @ < 2
                            THEN @ + 1 ELSE @]
          /\ UNCHANGED auth_failures
       \/ /\ Logged(w, "sendFail")
          /\ pc' = [pc EXCEPT ![w] = "ret"]
          /\ auth_failures' = [auth_failures EXCEPT ![w] = AfterSendFailure(@)]
          /\ consec' = [consec EXCEPT ![w] = @ + 1]
          /\ UNCHANGED okSends
    /\ UNCHANGED <<tickets, now, queue, budget, ticket_id, caller, backlog, entry,
                   scan>>

\* Mutant: the completion update sets sent_at but not the status.
CompletedRowNoStatus(row, t) == [row EXCEPT !.sent_at = t]

\* Mutant: the completion update does not set sent_at.
CompletedRowNoStamp(row, t) == [row EXCEPT !.status = "completed"]

\* UPDATE tickets SET sent_at = NOW(), status = 'completed' WHERE id = %d
CompletedRow(row, t) == [row EXCEPT !.status = "completed", !.sent_at = t]

\* Mutant: a successful send does not reset the counter.
AfterSendSuccessKept(n) == n

\* The counter after a successful send.
AfterSendSuccess(n) == 0

\* The UPDATE after a successful send (a failure is only logged), then
\* auth_failures = 0.
Complete(w) ==
    /\ pc[w] = "complete"
    /\ \/ /\ Logged(w, "completeErr")
          /\ UNCHANGED <<tickets, now>>
       \/ /\ Logged(w, "completeOk")
          /\ now' = now + 1
          /\ tickets' = [tickets EXCEPT ![ticket_id[w]] =
                            IF @ = NoRow THEN @ ELSE CompletedRow(@, now + 1)]
    /\ auth_failures' = [auth_failures EXCEPT ![w] = AfterSendSuccess(@)]
    /\ pc' = [pc EXCEPT ![w] = "ret"]
    /\ UNCHANGED <<queue, budget, ticket_id, caller, backlog, entry, consec, okSends, scan>>

\* Mutant: a call that logged a failed send ends the process.
ReturnExits(w) ==
    /\ pc[w] = "ret"
    /\ pc' = [pc EXCEPT ![w] = IF log[w] # <<>> /\ log[w][Len(log[w])] = "sendFail"
                                 THEN "exit" ELSE caller[w]]
    /\ log' = [log EXCEPT ![w] = <<>>]
    /\ entry' = [entry EXCEPT ![w] = NoEntry]
    /\ UNCHANGED <<tickets, now, queue, budget, ticket_id, caller, backlog,
                   auth_failures, consec, okSends, scan>>

\* process_ticket returns to the loop that called it.
Return(w) ==
    /\ pc[w] = "ret"
    /\ pc' = [pc EXCEPT ![w] = caller[w]]
    /\ log' = [log EXCEPT ![w] = <<>>]
    /\ entry' = [entry EXCEPT ![w] = NoEntry]
    /\ UNCHANGED <<tickets, now, queue, budget, ticket_id, caller, backlog,
                   auth_failures, consec, okSends, scan>>

(************************ the ticket producer ******************************)
\* NOTIFY new_ticket, '<id>': delivered to every connection that LISTENs.
Delivered(id) ==
    /\ \A w \in Workers : Listening(w) => Len(queue[w]) < MaxQueue
    /\ queue' = [w \in Workers |->
                    IF Listening(w) THEN Append(queue[w], id) ELSE queue[w]]

\* The producer inserts a ticket in 'received' and notifies.
Insert(id) ==
    /\ budget > 0
    /\ tickets[id] = NoRow
    /\ \E e \in Emails :
           tickets' = [tickets EXCEPT ![id] =
                          [status |-> "received", email |-> e, sent_at |-> NULL]]
    /\ Delivered(id)
    /\ budget' = budget - 1
    /\ UNCHANGED <<now, pc, ticket_id, caller, backlog, auth_failures,
                   log, entry, consec, okSends, scan>>

\* A notification that names an id again (or an id that has no row).
Notify(id) ==
    /\ budget > 0
    /\ Delivered(id)
    /\ budget' = budget - 1
    /\ UNCHANGED <<tickets, now, pc, ticket_id, caller, backlog, auth_failures,
                   log, entry, consec, okSends, scan>>

Next ==
    \/ \E w \in Workers :
          \/ connect_to_db(w)
          \/ Listen(w)
          \/ BacklogScan(w)
          \/ BacklogLoop(w)
          \/ Poll(w)
          \/ Sleep(w)
          \/ CoolDown(w)
          \/ Claim(w)
          \/ Fetch(w)
          \/ Reject(w)
          \/ Send(w)
          \/ Complete(w)
          \/ Return(w)
    \/ \E id \in Ids : Insert(id) \/ Notify(id)

Spec == Init /\ [][Next]_vars

\* The steps of two processes that are both in the steady-state loop.
NextRace ==
    \/ \E w \in Workers :
          \/ Poll(w)
          \/ Sleep(w)
          \/ CoolDown(w)
          \/ Claim(w)
          \/ Fetch(w)
          \/ Reject(w)
          \/ Send(w)
          \/ Complete(w)
          \/ Return(w)
    \/ \E id \in Ids : Insert(id) \/ Notify(id)

SpecRace == InitRace /\ [][NextRace]_vars

\* One process in the steady-state loop; its counter is what earlier tickets
\* left in it.
InitLive ==
    /\ tickets \in [Ids -> PriorRows]
    /\ now = Launch
    /\ queue = [w \in Workers |-> <<>>]
    /\ ticket_id = [w \in Workers |-> 0]
    /\ caller = [w \in Workers |-> "steady"]
    /\ backlog = [w \in Workers |-> <<>>]
    /\ auth_failures \in [Workers -> {0, MAX_AUTH_FAILURES}]
    /\ consec = auth_failures
    /\ log = [w \in Workers |-> <<>>]
    /\ entry = [w \in Workers |-> NoEntry]
    /\ okSends = [id \in Ids |-> 0]
    /\ scan = [w \in Workers |-> NoScan]
    /\ budget = MaxLiveNotifs
    /\ pc = [w \in Workers |-> IF w = 1 THEN "steady" ELSE "off"]

\* One statement of process w once it is in the steady-state loop.
ProcessStep(w) ==
    \/ Poll(w)
    \/ Sleep(w)
    \/ CoolDown(w)
    \/ Claim(w)
    \/ Fetch(w)
    \/ Reject(w)
    \/ Send(w)
    \/ Complete(w)
    \/ Return(w)

NextLive ==
    \/ \E w \in Workers : ProcessStep(w)
    \/ \E id \in Ids : Insert(id) \/ Notify(id)

\* Every query, send, sleep(1) and sleep(900) returns: a process that has a
\* next statement executes it.
SpecLive == InitLive /\ [][NextLive]_vars /\ \A w \in Workers : WF_vars(ProcessStep(w))

TypeOK ==
    /\ \A id \in Ids : tickets[id].status \in {"absent", "received", "processing", "completed"}
    /\ \A w \in Workers : auth_failures[w] \in 0..MAX_AUTH_FAILURES
    /\ budget \in 0..MaxNotifs
    /\ \A w \in Workers : Len(queue[w]) <= MaxQueue

(***************************************************************************)
(*                             Properties                                  *)
(***************************************************************************)
HasEv(w, ev) == \E k \in DOMAIN log[w] : log[w][k] = ev

Count(w, evs) == Cardinality({k \in DOMAIN log[w] : log[w][k] \in evs})

FailureEvents == {"claimErr", "fetchErr", "rejectErr", "sendFail", "completeErr"}
SendEvents == {"sendOk", "sendFail"}
AfterClaimEvents == {"fetch0", "fetch1", "fetchErr", "rejectOk", "rejectErr",
                     "sendOk", "sendFail", "completeOk", "completeErr"}

Row(w) == tickets[ticket_id[w]]

\* C1 (stated as claimed; the code violates it): for every ticket id at most
\* one send returns success before the ticket's status reaches completed,
\* whatever sends and database statements fail.
C1_NoDoubleSend == \A id \in Ids : okSends[id] <= 1

\* C2 as claimed (violated): a call whose claim update affected no row stops
\* there: no fetch, no send, no write to the ticket.
C2_ClaimMissStops ==
    \A w \in Workers :
        (InCall(w) /\ HasEv(w, "claim0")) => Count(w, AfterClaimEvents) = 0

\* C2 as amended: a call whose claim update affected no row still issues the
\* fetch; while the ticket is absent or completed (not in processing) the only
\* steps the call takes are that fetch, which finds no row or fails, and the
\* return: it writes nothing to any ticket and never reaches send, reject or
\* complete.
C2_ClaimMissFetchStops ==
    [][\A w \in Workers :
          (/\ InCall(w) /\ HasEv(w, "claim0")
           /\ Row(w).status # "processing"
           /\ pc'[w] # pc[w])
          => /\ pc[w] \in {"fetch", "ret"}
             /\ pc'[w] \in {"ret", caller[w]}
             /\ tickets' = tickets
             /\ okSends' = okSends]_vars

\* C2 witness: a call for an id with no row missed the claim, fetched nothing
\* and is about to return.
C2_Witness ==
    \E w \in Workers :
        /\ pc[w] = "ret"
        /\ log[w] = <<"claim0", "fetch0">>
        /\ entry[w].row = NoRow
        /\ Row(w) = NoRow

\* C3 (stated as claimed; the code violates it): when two executions of
\* process_ticket for the same id overlap on a ticket in received, the one
\* that loses the claim fetches no row, invokes no send and updates nothing.
C3_LoserNoOps ==
    \A w1, w2 \in Workers :
        (/\ w1 # w2
         /\ InCall(w1) /\ InCall(w2)
         /\ ticket_id[w1] = ticket_id[w2]
         /\ entry[w1].row.status = "received"
         /\ entry[w2].row.status = "received"
         /\ HasEv(w1, "claim1")
         /\ HasEv(w2, "claim0"))
        => /\ pc[w2] \notin {"send", "reject", "complete"}
           /\ Count(w2, {"fetch1", "sendOk", "sendFail", "rejectOk", "rejectErr",
                         "completeOk", "completeErr"}) = 0

\* C4: when the claim update is issued by two overlapping executions for the
\* same ticket in received, exactly one of the two updates affects a row and
\* the other observes zero affected rows.
C4_IdempotentClaim ==
    \A w1, w2 \in Workers :
        (/\ w1 # w2
         /\ InCall(w1) /\ InCall(w2)
         /\ ticket_id[w1] = ticket_id[w2]
         /\ entry[w1].row.status = "received"
         /\ entry[w2].row.status = "received"
         /\ Count(w1, {"claim0", "claim1"}) = 1
         /\ Count(w2, {"claim0", "claim1"}) = 1)
        => Count(w1, {"claim1"}) + Count(w2, {"claim1"}) = 1

\* C4 witness: both executions have issued the claim on a ticket they both
\* found in received; one affected a row, the other none.
C4_Witness ==
    \E w1, w2 \in Workers :
        /\ w1 # w2
        /\ InCall(w1) /\ InCall(w2)
        /\ ticket_id[w1] = ticket_id[w2]
        /\ entry[w1].row.status = "received"
        /\ entry[w2].row.status = "received"
        /\ HasEv(w1, "claim1")
        /\ HasEv(w2, "claim0")

\* C5: send is never invoked for a ticket whose recipient fails validation.
C5_InvalidNeverSent ==
    \A w \in Workers :
        (InCall(w) /\ (pc[w] \in {"send", "complete"} \/ Count(w, SendEvents) > 0))
        => is_valid_email(Row(w).email)

\* C5 witness: a call fetched a ticket with an invalid recipient and is about
\* to return without a send.
C5_Witness ==
    \E w \in Workers :
        /\ pc[w] = "ret"
        /\ HasEv(w, "fetch1")
        /\ ~is_valid_email(Row(w).email)
        /\ Count(w, SendEvents) = 0

\* C6: a process_ticket call waits for the cool-down, once and before its
\* claim, exactly when it is entered after 5 failed sends with no successful
\* send (and no cool-down) between them; the counter is 0 right after the
\* wait; a call entered with fewer failures does not wait.
C6_BackoffAtThreshold ==
    \A w \in Workers :
        /\ pc[w] = "cooldown" => (entry[w].fails = MAX_AUTH_FAILURES /\ log[w] = <<>>)
        /\ (InCall(w) /\ pc[w] # "cooldown") =>
              /\ Count(w, {"wait"}) = (IF entry[w].fails = MAX_AUTH_FAILURES THEN 1 ELSE 0)
              /\ HasEv(w, "wait") => log[w][1] = "wait"
              /\ (pc[w] = "claim" /\ HasEv(w, "wait")) => auth_failures[w] = 0

\* C6 witness: the call entered after 5 failed sends has just finished its
\* wait.
C6_Witness ==
    \E w \in Workers :
        /\ pc[w] = "claim"
        /\ log[w] = <<"wait">>
        /\ entry[w].fails = MAX_AUTH_FAILURES
        /\ auth_failures[w] = 0

\* C7: the counter equals the number of failed sends since the most recent
\* successful send or cool-down (0 at launch), whatever no-op and
\* invalid-address calls came in between; the counter is read outside the
\* completion update that sits between a successful send and the reset.
C7_CountsConsecutiveFailures ==
    \A w \in Workers : pc[w] # "complete" => auth_failures[w] = consec[w]

\* C7 witness: a call entered after some failed sends (fewer than 5) sent
\* successfully and leaves the counter at 0.
C7_Witness ==
    \E w \in Workers :
        /\ pc[w] = "ret"
        /\ entry[w].fails \in 2..(MAX_AUTH_FAILURES - 1)
        /\ HasEv(w, "sendOk")
        /\ auth_failures[w] = 0

\* C8: once a ticket is completed no step changes its row, and a
\* process_ticket call for it never reaches send (nor the reject or
\* completion update).
C8_CompletedIsTerminal ==
    [][\A id \in Ids :
          tickets[id].status = "completed"
          => /\ tickets'[id] = tickets[id]
             /\ okSends'[id] = okSends[id]
             /\ \A w \in Workers :
                   (InCall(w)' /\ ticket_id'[w] = id)
                   => pc'[w] \notin {"send", "reject", "complete"}]_vars

\* C8 witness: a call for a ticket that was already completed missed the
\* claim, fetched no row and left the row as it was.
C8_Witness ==
    \E w \in Workers :
        /\ pc[w] = "ret"
        /\ entry[w].row.status = "completed"
        /\ log[w] = <<"claim0", "fetch0">>
        /\ Row(w) = entry[w].row

\* C9: a call for a ticket in received with a valid recipient, in which no
\* statement and no send fails, invokes send exactly once and ends with the
\* ticket completed and sent_at non-null.
C9_SuccessPath ==
    \A w \in Workers :
        (/\ pc[w] = "ret"
         /\ entry[w].row.status = "received"
         /\ is_valid_email(entry[w].row.email)
         /\ Count(w, FailureEvents) = 0)
        => /\ Count(w, SendEvents) = 1
           /\ HasEv(w, "claim1") /\ HasEv(w, "fetch1") /\ HasEv(w, "completeOk")
           /\ Row(w).status = "completed"
           /\ Row(w).sent_at # NULL

\* C9 witness: the success path has run to its end.
C9_Witness ==
    \E w \in Workers :
        /\ pc[w] = "ret"
        /\ entry[w].row.status = "received"
        /\ log[w] = <<"claim1", "fetch1", "sendOk", "completeOk">>
        /\ Row(w).status = "completed"

InvalidPathDone(w) ==
    /\ pc[w] = "ret"
    /\ HasEv(w, "claim1")
    /\ HasEv(w, "fetch1")
    /\ ~is_valid_email(Row(w).email)

CounterAsAfterGate(w) ==
    auth_failures[w] = (IF HasEv(w, "wait") THEN 0 ELSE entry[w].fails)

\* C10 as claimed (violated): a call that claims and fetches a ticket with an
\* invalid recipient stamps sent_at, leaves the status at processing and
\* leaves the failure counter unchanged.
C10_InvalidStamps ==
    \A w \in Workers :
        InvalidPathDone(w)
        => /\ Row(w).sent_at # NULL
           /\ Row(w).status = "processing"
           /\ CounterAsAfterGate(w)

\* C10 as amended: such a call issues the invalid-address update; when that
\* statement succeeds sent_at is stamped with the current time, when it fails
\* (its result is not looked at) sent_at stays as it was; either way the
\* status is processing and the failure counter is unchanged.
C10_InvalidOutcome ==
    \A w \in Workers :
        InvalidPathDone(w)
        => /\ Count(w, {"rejectOk", "rejectErr"}) = 1
           /\ HasEv(w, "rejectOk") => (Row(w).sent_at = now /\ Row(w).sent_at # NULL
                                        /\ Row(w).sent_at # entry[w].row.sent_at)
           /\ HasEv(w, "rejectErr") => Row(w).sent_at = entry[w].row.sent_at
           /\ Row(w).status = "processing"
           /\ Count(w, SendEvents) = 0
           /\ CounterAsAfterGate(w)

\* C10 witness: the invalid-address update has stamped the claimed ticket.
C10_Witness ==
    \E w \in Workers :
        /\ InvalidPathDone(w)
        /\ log[w] = <<"claim1", "fetch1", "rejectOk">>
        /\ Row(w).sent_at = now

\* C11: when the send of a call fails, the call returns with the ticket still
\* in processing (not reverted to received), its sent_at as it was, and the
\* failure counter one above its value after the backoff gate.
C11_SendFailureOutcome ==
    \A w \in Workers :
        (pc[w] = "ret" /\ HasEv(w, "sendFail"))
        => /\ Row(w).status = "processing"
           /\ Row(w).sent_at = entry[w].row.sent_at
           /\ Row(w).sent_at = NULL
           /\ auth_failures[w] = (IF HasEv(w, "wait") THEN 0 ELSE entry[w].fails) + 1
           /\ log[w][Len(log[w])] = "sendFail"

\* C11 witness: a freshly claimed ticket whose send failed, after an earlier
\* failure.
C11_Witness ==
    \E w \in Workers :
        /\ pc[w] = "ret"
        /\ log[w] = <<"claim1", "fetch1", "sendFail">>
        /\ entry[w].fails = 1
        /\ auth_failures[w] = 2
        /\ Row(w).status = "processing"


\* A step in which process w enters process_ticket.
CallEntered(w) == ~InCall(w) /\ InCall(w)'

\* C12: a ticket left in processing has send attempted for it again by the
\* process_ticket call that a notification or a backlog row naming its id
\* starts (unless the claim or the fetch statement of that call fails), and
\* by nothing else: a call is entered only for the id at the head of the
\* notification queue or of the backlog rows, and the row of a ticket in
\* processing changes only in a call for its id.
C12_RetryOnlyOnRetouch ==
    /\ [](\A w \in Workers :
             (/\ pc[w] = "ret"
              /\ entry[w].row.status = "processing"
              /\ is_valid_email(entry[w].row.email)
              /\ Count(w, {"claimErr", "fetchErr"}) = 0)
             => Count(w, SendEvents) = 1)
    /\ [][/\ \A w \in Workers :
               CallEntered(w)
               => \/ /\ pc[w] = "steady" /\ queue[w] # <<>>
                     /\ ticket_id'[w] = Head(queue[w])
                  \/ /\ pc[w] = "backlog" /\ backlog[w] # <<>>
                     /\ ticket_id'[w] = Head(backlog[w])
          /\ \A w \in Workers :
               pc'[w] \in {"send", "complete"} => (InCall(w) /\ ticket_id'[w] = ticket_id[w])
          /\ \A id \in Ids :
               (tickets[id].status = "processing" /\ tickets'[id] # tickets[id])
               => \E w \in Workers : InCall(w) /\ ticket_id[w] = id]_vars

\* C12 witness: a ticket left in processing by a failed send was named by a
\* notification and its send was attempted again.
C12_Witness ==
    \E w \in Workers :
        /\ pc[w] = "ret"
        /\ caller[w] = "steady"
        /\ entry[w].row.status = "processing"
        /\ entry[w].fails >= 1
        /\ log[w] = <<"claim0", "fetch1", "sendFail">>


\* C13 (stated as claimed; the code violates it): sent_at of a ticket is
\* written at most once: once non-null it is never overwritten.
C13_SentAtSetOnce ==
    [][\A id \in Ids :
          tickets[id].sent_at # NULL => tickets'[id].sent_at = tickets[id].sent_at]_vars


\* C14: a ticket with non-null sent_at is completed or has a recipient that
\* fails validation, and sent_at changes only in the completion update or the
\* invalid-address update of a call for that ticket (never in the claim, the
\* fetch or the failed-send path).
C14_OnlyTwoWritesSetSentAt ==
    /\ [](\A id \in Ids :
             tickets[id].sent_at # NULL
             => \/ tickets[id].status = "completed"
                \/ ~is_valid_email(tickets[id].email))
    /\ [][\A id \in Ids :
             tickets'[id].sent_at # tickets[id].sent_at
             => \E w \in Workers :
                   /\ ticket_id[w] = id
                   /\ \/ pc[w] = "complete" /\ tickets'[id].status = "completed"
                      \/ pc[w] = "reject" /\ ~is_valid_email(tickets[id].email)]_vars

\* C14 witness: this run has stamped one ticket on completion and another on
\* the invalid-address path.
C14_Witness ==
    \E i, j \in Ids :
        /\ tickets[i].status = "completed" /\ tickets[i].sent_at > Launch
        /\ tickets[j].status = "processing" /\ tickets[j].sent_at > Launch
        /\ ~is_valid_email(tickets[j].email)


Range(s) == {s[k] : k \in DOMAIN s}

InSteadyState(w) == pc[w] \in {"steady", "sleep"} \/ (InCall(w) /\ caller[w] = "steady")

\* C15: once the backlog query has returned, its rows are exactly the
\* tickets that were in received or processing when it ran (none completed),
\* each once; process_ticket is invoked for them one by one in the order of
\* the rows, and when the steady-state loop starts it has been invoked
\* exactly once for each.
C15_BacklogRecovery ==
    /\ [](\A w \in Workers :
             /\ scan[w].ran =>
                   /\ Range(scan[w].rows) =
                         {id \in Ids : scan[w].seen[id] \in {"received", "processing"}}
                   /\ Len(scan[w].rows) = Cardinality(Range(scan[w].rows))
                   /\ scan[w].served \o backlog[w] = scan[w].rows
                   /\ ~InSteadyState(w)
                   /\ (InCall(w) /\ caller[w] = "backlog")
                         => ticket_id[w] = scan[w].served[Len(scan[w].served)]
             /\ ~scan[w].ran => (scan[w].served = <<>> /\ backlog[w] = <<>>))
    /\ [][\A w \in Workers :
             /\ (scan[w].ran /\ InSteadyState(w)')
                   => (scan[w].served = scan[w].rows /\ backlog[w] = <<>>)
             /\ (CallEntered(w) /\ caller'[w] = "backlog")
                   => (scan[w].ran /\ scan'[w].served = Append(scan[w].served, ticket_id'[w]))
             /\ (scan[w].ran /\ scan'[w].ran)
                   => (scan'[w].rows = scan[w].rows /\ scan'[w].seen = scan[w].seen)]_vars

\* C15 witness: the backlog query returned both tickets, one in
\* received and one in processing, and both have been served in that order.
C15_Witness ==
    \E w \in Workers :
        /\ pc[w] = "backlog"
        /\ backlog[w] = <<>>
        /\ scan[w].ran
        /\ scan[w].rows = <<2, 1>>
        /\ scan[w].served = <<2, 1>>
        /\ scan[w].seen[1] = "received"
        /\ scan[w].seen[2] = "processing"


\* The intake phase of process w ("off": the program is not running).
Phase(w) ==
    CASE pc[w] \in {"connect", "listen"} -> "starting"
      [] pc[w] = "exit" -> "exited"
      [] pc[w] = "off" -> "off"
      [] InSteadyState(w) -> "steady-state"
      [] OTHER -> "backlog-draining"

PhaseMoves == {<<"starting", "backlog-draining">>,
               <<"backlog-draining", "steady-state">>,
               <<"starting", "exited">>}

\* C16: the intake loop moves only starting -> backlog-draining ->
\* steady-state (or from starting to the fatal exit); a process that exited
\* never called process_ticket; backlog-draining is left only when
\* process_ticket has been called for every row of the backlog, and a
\* notification is taken from the connection only in steady-state;
\* steady-state is never left.
C16_IntakePhaseOrder ==
    /\ [](\A w \in Workers :
             /\ Phase(w) \in {"starting", "exited"}
                   => (ticket_id[w] = 0 /\ log[w] = <<>> /\ ~scan[w].ran)
             /\ Phase(w) = "steady-state" => (backlog[w] = <<>> /\ ~scan[w].ran))
    /\ [][\A w \in Workers :
             /\ Phase(w)' # Phase(w) => <<Phase(w), Phase(w)'>> \in PhaseMoves
             /\ (pc[w] = "listen" /\ pc'[w] = "exit") => ~CallEntered(w)
             /\ (Phase(w) = "backlog-draining" /\ Phase(w)' = "steady-state")
                   => (backlog[w] = <<>> /\ scan[w].served = scan[w].rows)
             /\ Len(queue'[w]) < Len(queue[w]) => Phase(w) = "steady-state"
             /\ Phase(w) = "steady-state" => Phase(w)' = "steady-state"]_vars

\* C16 witness: the last of two backlog rows has been processed while two
\* notifications that arrived in the meantime are still buffered.
C16_Witness ==
    \E w \in Workers :
        /\ pc[w] = "backlog"
        /\ backlog[w] = <<>>
        /\ Len(scan[w].rows) = 2
        /\ scan[w].served = scan[w].rows
        /\ Len(queue[w]) = 2


\* Notifications delivered to the one connection of SpecLive, and those
\* taken from it.
Arrived == MaxLiveNotifs - budget

Handled(w) == Arrived - Len(queue[w])

\* C17: a notification is taken from the connection only by the loop when no
\* process_ticket call is running, it is the oldest one buffered, and the call
\* entered is for the ticket it names; the buffer changes in no other way than
\* by that and by an arrival at its end; and, every statement returning, the
\* n-th notification to arrive is eventually the n-th one handled.
C17_SteadyStateDraining ==
    /\ [][\A w \in Workers :
             /\ queue'[w] # queue[w]
                   => \/ /\ queue[w] # <<>>
                         /\ queue'[w] = Tail(queue[w])
                         /\ pc[w] = "steady"
                         /\ CallEntered(w)
                         /\ ticket_id'[w] = Head(queue[w])
                      \/ \E id \in Ids : queue'[w] = Append(queue[w], id)
             /\ (CallEntered(w) /\ caller'[w] = "steady")
                   => (queue[w] # <<>> /\ queue'[w] = Tail(queue[w]))
             /\ InCall(w) => Len(queue'[w]) >= Len(queue[w])]_vars
    /\ \A n \in 1..MaxLiveNotifs : (Arrived >= n) ~> (Handled(1) >= n)

\* C17 witness: two notifications for different tickets were buffered; the
\* older one is being processed and the newer one still waits.
C17_Witness ==
    /\ InCall(1)
    /\ caller[1] = "steady"
    /\ Arrived >= 2
    /\ Handled(1) = 1
    /\ queue[1] # <<>>
    /\ ticket_id[1] # Head(queue[1])


\* C18: a step inside process_ticket(id) never ends the process and changes
\* no ticket other than id; a statement that fails makes the call return; and
\* the return puts the process back in the loop that made the call, with the
\* rows and notifications still to be processed as they were.
C18_DegradedContinue ==
    [][\A w \in Workers :
          /\ InCall(w) => pc'[w] \in {"cooldown", "claim", "fetch", "reject", "send",
                                      "complete", "ret", "backlog", "steady"}
          /\ (InCall(w) /\ log'[w] # log[w])
                => \A id \in Ids \ {ticket_id[w]} : tickets'[id] = tickets[id]
          /\ (Len(log'[w]) > Len(log[w]) /\ log'[w][Len(log'[w])] \in FailureEvents)
                => pc'[w] = "ret"
          /\ (InCall(w) /\ InCall(w)')
                => (ticket_id'[w] = ticket_id[w] /\ backlog'[w] = backlog[w])
          /\ (pc[w] = "ret" /\ pc'[w] # "ret")
                => /\ caller[w] \in {"backlog", "steady"}
                   /\ pc'[w] = caller[w]
                   /\ backlog'[w] = backlog[w]
                   /\ queue'[w] = queue[w]]_vars

\* C18 witness: the first backlog call ended in a failed send, and the backlog
\* loop is in its second call, for the other ticket.
C18_Witness ==
    \E w \in Workers :
        /\ InCall(w)
        /\ caller[w] = "backlog"
        /\ Len(scan[w].served) = 2
        /\ entry[w].fails = 1
        /\ tickets[scan[w].served[1]].status = "processing"
        /\ tickets[scan[w].served[1]].sent_at = NULL


\* C19: the failure counter of every process is within 0..MAX_AUTH_FAILURES
\* in every reachable state, and past the backoff gate of a call it is below
\* MAX_AUTH_FAILURES, so the one increment a call can make does not exceed it.
C19_CounterInRange ==
    \A w \in Workers :
        /\ auth_failures[w] \in 0..MAX_AUTH_FAILURES
        /\ pc[w] \in {"claim", "fetch", "reject", "send", "complete"}
              => auth_failures[w] < MAX_AUTH_FAILURES

\* C19 witness: a call found the counter at MAX_AUTH_FAILURES, the gate reset
\* it, and the send of that call failed: the counter is 1.
C19_Witness ==
    \E w \in Workers :
        /\ pc[w] = "ret"
        /\ entry[w].fails = MAX_AUTH_FAILURES
        /\ log[w] = <<"wait", "claim0", "fetch1", "sendFail">>
        /\ auth_failures[w] = 1

StatusMoves == {<<"absent", "received">>,
                <<"received", "processing">>,
                <<"processing", "completed">>}

\* C20: a ticket's status changes only from received to processing and from
\* processing to completed (a new ticket appears in received); no row is
\* deleted; and every ticket in completed has a non-null sent_at.
C20_StatusForwardOnly ==
    /\ [](\A id \in Ids : tickets[id].status = "completed" => tickets[id].sent_at # NULL)
    /\ [][\A id \in Ids :
             /\ tickets'[id].status # tickets[id].status
                   => <<tickets[id].status, tickets'[id].status>> \in StatusMoves
             /\ tickets[id] # NoRow => tickets'[id] # NoRow
             /\ (\E w \in Workers : InCall(w) /\ log'[w] # log[w])
                   => <<tickets[id].status, tickets'[id].status>>
                         # <<"absent", "received">>]_vars

\* C20 witness: one ticket went from received through processing to completed
\* in this run, and the other stayed in processing after a rejected address.
C20_Witness ==
    \E i, j \in Ids :
        /\ tickets[i].status = "completed"
        /\ tickets[i].sent_at > Launch
        /\ okSends[i] = 1
        /\ tickets[j].status = "processing"
        /\ ~is_valid_email(tickets[j].email)
        /\ \E w \in Workers : pc[w] = "ret" /\ ticket_id[w] = j
                              /\ log[w] = <<"claim1", "fetch1", "rejectOk">>


=============================================================================
